---- MODULE Spec2Model ----
(***************************************************************************)
(* Ingestion pipeline of herramienta-copernicus                            *)
(* (src/backend/scanner/ingest.py): file discovery, per-file metadata      *)
(* extraction in a process pool, and batched INSERT OR IGNORE loading      *)
(* into the products / bbox_index tables of the SQLite catalogue.          *)
(***************************************************************************)
EXTENDS Integers, Sequences, FiniteSets, TLC

(***************************************************************************)
(* Bounds of the model.                                                    *)
(***************************************************************************)
\* Runs of ingest() in one behaviour.
MaxRuns == 2
\* Changes of the file system (files replaced, removed, root removed).
MaxChanges == 1
\* Largest worker count handed to ingest(workers).
MaxWorkers == 2
\* Stand-in for the flush threshold 500 of ingest.py line 225, scaled down so
\* that an intermediate flush happens with a handful of records.
BatchSize == 2
\* Longest pair of deques handed to _flush taken alone.
MaxBatch == 3
\* Most commits made by the visualization client (deletions and resets).
MaxOps == 2

(***************************************************************************)
(* Program constants.                                                      *)
(***************************************************************************)
MAX_SIZE_MB == 700

SizeLimit == MAX_SIZE_MB * 1024 * 1024

NoVal == "None"

\* BLACKLIST as Python builds it: "geo:" "trsp" are adjacent string literals
\* with no comma between them, so they are one element, "geo:trsp".
BLACKLIST ==
  { "geodetic_in", "FRP_SWIR500m", "time_cordinates", "geo:trsp", "w_aer",
    "tie_geo_coordinates", "tie_meteo", "wqsf", "tsm_nn" }

\* The keys of VARIABLES_ALIAS the model's files use, with their labels.
VARIABLES_ALIAS ==
  [ sst |-> "Sea Surface Temperature",
    wind_speed |-> "Wind Speed",
    cloud_fraction |-> "Cloud Fraction" ]

(***************************************************************************)
(* The file system: directory entries under DATA_DIR and their contents.   *)
(***************************************************************************)
P1 == "A_20240101T000000_20240101T010000.nc"
P2 == "sub/B.nc"
P3 == "C.nc"
P4 == "geodetic_in.nc"
P5 == "notes.txt"
\* A name whose digits fit the pattern and are no date (month 13, day 40).
P6 == "D_20241340T000000_20240101T000000.nc"

\* A file named after the fifth line of the exclusion list.
P7 == "trsp.nc"

Paths == {P1, P2, P3, P4, P5, P7}

\* Path.stem, Path.suffix and Path.name of each entry.
Stem(p) ==
  CASE p = P1 -> "A_20240101T000000_20240101T010000"
    [] p = P2 -> "B"
    [] p = P3 -> "C"
    [] p = P4 -> "geodetic_in"
    [] p = P5 -> "notes"
    [] p = P6 -> "D_20241340T000000_20240101T000000"
    [] p = P7 -> "trsp"

Suffix(p) == IF p = P5 THEN ".txt" ELSE ".nc"

Name(p) == IF p = P2 THEN "B.nc" ELSE p

\* The groups of the regular expression (\d{8}T\d{6})_(\d{8}T\d{6}) searched
\* in the stem, or <<>> when it does not match.
StemStamps(p) ==
  CASE p = P1 -> <<"20240101T000000", "20240101T010000">>
    [] p = P6 -> <<"20241340T000000", "20240101T000000">>
    [] OTHER -> <<>>

\* A netCDF group: its variables and its subgroups.
Group(vs, gs) == [variables |-> vs, groups |-> gs]

\* File contents. size: st_size. prefix: the first 8192 bytes. xr_ok / nc_ok:
\* xarray / netCDF4 can open the file. coords: <<[lat, lon]>>, the arrays of
\* the variables find_lat_lon names, or <<>> when it raises ValueError.
\* corner_lat / corner_lon: the arrays of the pixel_corner_*_Corner
\* variables. raw: <<[lat, lon]>>, the arrays extract_bbox_fallback finds, or
\* <<>>. root: the group tree. attrs: the global attributes, NoVal for one
\* the file does not have.
Attrs(start, stop, platform, source, instrument) ==
  [ start_time |-> start, stop_time |-> stop, platform |-> platform,
    source |-> source, instrument |-> instrument ]

Contents ==
  [ two |->
      [ size |-> 4096, prefix |-> "aa", xr_ok |-> TRUE, nc_ok |-> TRUE,
        coords |-> << [lat |-> <<10, 20>>, lon |-> <<-5, 5>>] >>,
        corner_lat |-> <<>>, corner_lon |-> <<>>, raw |-> <<>>,
        root |-> Group({"sst", "wind_speed", "lat", "lon"}, <<>>),
        attrs |-> Attrs("2024-02-02T00:00:00Z", "2024-02-02T01:00:00Z",
                        "Sentinel-3A", NoVal, "SLSTR") ],
    two_v2 |->
      [ size |-> 8192, prefix |-> "bb", xr_ok |-> TRUE, nc_ok |-> TRUE,
        coords |-> << [lat |-> <<30, 40>>, lon |-> <<0, 8>>] >>,
        corner_lat |-> <<>>, corner_lon |-> <<>>, raw |-> <<>>,
        root |-> Group({"sst", "wind_speed", "lat", "lon"}, <<>>),
        attrs |-> Attrs("2024-03-03T00:00:00Z", "2024-03-03T01:00:00Z",
                        "Sentinel-3B", NoVal, "SLSTR") ],
    novars |->
      [ size |-> 2048, prefix |-> "cc", xr_ok |-> TRUE, nc_ok |-> TRUE,
        coords |-> << [lat |-> <<1, 2>>, lon |-> <<3, 4>>] >>,
        corner_lat |-> <<>>, corner_lon |-> <<>>, raw |-> <<>>,
        root |-> Group({"foo", "lat", "lon"}, <<Group({"bar"}, <<>>)>>),
        attrs |-> Attrs(NoVal, NoVal, NoVal, "MODEL run 7", NoVal) ],
    corrupt |->
      [ size |-> 512, prefix |-> "dd", xr_ok |-> FALSE, nc_ok |-> FALSE,
        coords |-> <<>>, corner_lat |-> <<>>, corner_lon |-> <<>>,
        raw |-> <<>>, root |-> Group({}, <<>>),
        attrs |-> Attrs(NoVal, NoVal, NoVal, NoVal, NoVal) ],
    big |->
      [ size |-> SizeLimit + 1, prefix |-> "ee", xr_ok |-> TRUE,
        nc_ok |-> TRUE,
        coords |-> << [lat |-> <<0, 1>>, lon |-> <<0, 1>>] >>,
        corner_lat |-> <<>>, corner_lon |-> <<>>, raw |-> <<>>,
        root |-> Group({"sst", "lat", "lon"}, <<>>),
        attrs |-> Attrs(NoVal, NoVal, "Sentinel-3A", NoVal, NoVal) ],
    edge |->
      [ size |-> SizeLimit, prefix |-> "ff", xr_ok |-> TRUE, nc_ok |-> TRUE,
        coords |-> <<>>, corner_lat |-> <<>>, corner_lon |-> <<>>,
        raw |-> <<>>,
        root |-> Group({"time"}, <<Group({"cloud_fraction"}, <<>>)>>),
        attrs |-> Attrs(NoVal, "garbage", NoVal, "TROPOMI L2 product",
                        NoVal) ] ]

ContentIds == DOMAIN Contents

\* What a directory entry can be: no entry, an entry that cannot be stat-ed
\* (a dangling symbolic link), or a file with one of the contents.
Absent == "absent"
Dangling == "dangling"

\* The states each entry takes in the model.
Options(p) ==
  CASE p = P1 -> {"two", "two_v2"}
    [] p = P2 -> {"novars", "corrupt"}
    [] p = P3 -> {"big", "edge", Dangling, Absent}
    [] p = P4 -> {"two"}
    [] p = P5 -> {"two"}
    [] p = P7 -> {Absent}

VARIABLES
  rootExists,   \* DATA_DIR exists
  disk,         \* [Paths -> ContentIds \cup {Absent, Dangling}]
  products,     \* committed rows of table products
  bbox_index,   \* committed rows of table bbox_index
  txProducts,   \* products as the open connection sees it (uncommitted)
  txBbox,       \* bbox_index as the open connection sees it (uncommitted)
  conn,         \* "closed" | "open"
  pc,           \* "idle" | "running" | "done" | "aborted"
  error,        \* the exception raised in the run: "" | "store" | "extract" | "crash"
  workers,      \* max_workers of the pool
  all_nc,       \* the discovered paths
  fstate,       \* per path: "none" | "pending" | "running" | "done" | "consumed"
  result,       \* per path: what extract_metadata produced
  batch_meta,   \* deque of pending product tuples
  batch_bbox,   \* deque of pending bbox tuples
  log,          \* what the run printed
  commits,      \* conn.commit() calls of the current run
  flushes,      \* _flush calls of the current run
  runs,         \* runs started
  changes,      \* file-system changes made
  runClean,     \* the file system has not changed since the run started
  settled,      \* runs completed over the file system as it is now
  xpath,        \* the path of one call of extract_metadata taken alone
  xfile,        \* the contents of the file at that path
  xres,         \* what that call returned
  refused,      \* keys whose insert the store skips without holding a row
  table,        \* the rows the visualization client last fetched
  ops           \* commits made by the visualization client

vars ==
  << rootExists, disk, products, bbox_index, txProducts, txBbox, conn, pc,
     error, workers, all_nc, fstate, result, batch_meta, batch_bbox,
     log, commits, flushes, runs, changes, runClean, settled,
     xpath, xfile, xres, refused, table, ops >>

xvars == <<xpath, xfile, xres, refused, table, ops>>

(***************************************************************************)
(* Helpers of the extractor.                                               *)
(***************************************************************************)
RECURSIVE SeqMin(_), SeqMax(_), SeqSum(_)
SeqMin(a) ==
  IF Len(a) = 1 THEN a[1]
  ELSE LET m == SeqMin(Tail(a)) IN IF a[1] < m THEN a[1] ELSE m

SeqMax(a) ==
  IF Len(a) = 1 THEN a[1]
  ELSE LET m == SeqMax(Tail(a)) IN IF a[1] > m THEN a[1] ELSE m

SeqSum(a) == IF a = <<>> THEN 0 ELSE a[1] + SeqSum(Tail(a))

\* Every order in which a set can be iterated.
Orders(S) ==
  { s \in [1..Cardinality(S) -> S] : \A x \in S : \E i \in DOMAIN s : s[i] = x }

\* getattr(nc, name, "")
GetAttr(c, name) == IF c.attrs[name] = NoVal THEN "" ELSE c.attrs[name]

\* dateutil's isoparse followed by strftime("%Y-%m-%dT%H:%M:%S"): <<text>>,
\* or <<>> when isoparse raises. The time zone designator is dropped.
IsoParse(v) ==
  CASE v = "2024-02-02T00:00:00Z" -> <<"2024-02-02T00:00:00">>
    [] v = "2024-02-02T01:00:00Z" -> <<"2024-02-02T01:00:00">>
    [] v = "2024-03-03T00:00:00Z" -> <<"2024-03-03T00:00:00">>
    [] v = "2024-03-03T01:00:00Z" -> <<"2024-03-03T01:00:00">>
    [] v = "20240101T000000" -> <<"2024-01-01T00:00:00">>
    [] v = "20240101T010000" -> <<"2024-01-01T01:00:00">>
    [] OTHER -> <<>>

\* dateutil's lenient parser.parse followed by the same strftime.
LenientParse(v) ==
  CASE v = "2 Feb 2024 01:00" -> <<"2024-02-02T01:00:00">>
    [] OTHER -> IsoParse(v)

normalize_datetime(value) ==
  IF value = "" THEN ""
  ELSE IF IsoParse(value) # <<>> THEN IsoParse(value)[1]
  ELSE IF LenientParse(value) # <<>> THEN LenientParse(value)[1]
  ELSE ""

extract_times_from_filename(p) ==
  LET match == StemStamps(p) IN
  IF match # <<>>
  THEN IF IsoParse(match[1]) # <<>> /\ IsoParse(match[2]) # <<>>
       THEN <<IsoParse(match[1])[1], IsoParse(match[2])[1]>>
       ELSE <<"", "">>
  ELSE <<"", "">>

RECURSIVE walk_all_variables(_)
walk_all_variables(nc_group) ==
  nc_group.variables \cup
    UNION { walk_all_variables(nc_group.groups[i]) :
              i \in DOMAIN nc_group.groups }

\* str.split(" ")[0] of the source attribute.
FirstToken(s) ==
  CASE s = "MODEL run 7" -> "MODEL"
    [] s = "TROPOMI L2 product" -> "TROPOMI"
    [] OTHER -> s

\* xxhash.xxh64_hexdigest of the first 8192 bytes.
Checksum(c) == <<"xxh64", c.prefix>>

\* The tuple (None, None, None, None).
NoneBBox == <<>>

\* The floating-point value nan, which an array element can be.
NaN == 999999

\* The elements of an array that are not nan, in order.
Finite(a) == SelectSeq(a, LAMBDA x : x # NaN)

\* np.nanmin / np.nanmax of a non-empty array: nan when every element is.
NanMin(a) == IF Finite(a) = <<>> THEN NaN ELSE SeqMin(Finite(a))

NanMax(a) == IF Finite(a) = <<>> THEN NaN ELSE SeqMax(Finite(a))

\* Lines 121-124 and line 92.
BBoxOf(lat_arr, lon_arr) ==
  << NanMin(lat_arr), NanMax(lat_arr), NanMin(lon_arr), NanMax(lon_arr) >>

\* np.nanmean over a non-empty list of numbers: nan when every one is.
NanMean(a) ==
  IF Finite(a) = <<>> THEN NaN ELSE SeqSum(Finite(a)) \div Len(Finite(a))

\* np.nanmean(np.array([...4 arrays...]), axis=0)
\* The first corner array taken for the mean of the four.
CornerFirst(corners) == corners[1]

CornerMean(corners) ==
  [ i \in DOMAIN corners[1] |->
      NanMean([k \in DOMAIN corners |-> corners[k][i]]) ]

\* The four results of extract_bbox_fallback, lines 74-94.  The arrays of
\* the model are never of size zero.
extract_bbox_fallback(c) ==
  IF c.raw # <<>> THEN BBoxOf(c.raw[1].lat, c.raw[1].lon) ELSE NoneBBox

\* Which strategy lines 105-128 end in: "standard" (find_lat_lon, lines
\* 108-110), "corner" (112-118), or "raw" when xarray cannot open the
\* file or neither is found (line 120): the except of line 126 then runs
\* extract_bbox_fallback.
GeoStrategyCornerFirst(c) ==
  IF ~c.xr_ok THEN "raw"
  ELSE IF Len(c.corner_lat) = 4 /\ Len(c.corner_lon) = 4 THEN "corner"
  ELSE IF c.coords # <<>> THEN "standard"
  ELSE "raw"

GeoStrategy(c) ==
  IF ~c.xr_ok THEN "raw"
  ELSE IF c.coords # <<>> THEN "standard"
  ELSE IF Len(c.corner_lat) = 4 /\ Len(c.corner_lon) = 4 THEN "corner"
  ELSE "raw"

\* Lines 105-128: <<bbox>>, or <<>> when the netCDF4 open of the fallback
\* raises (which the outer try turns into the failure result).
GeoBBox(c) ==
  CASE GeoStrategy(c) = "standard" ->
         << BBoxOf(c.coords[1].lat, c.coords[1].lon) >>
    [] GeoStrategy(c) = "corner" ->
         << BBoxOf(CornerMean(c.corner_lat), CornerMean(c.corner_lon)) >>
    [] OTHER ->
         IF c.nc_ok THEN << extract_bbox_fallback(c) >> ELSE <<>>

(***************************************************************************)
(* extract_metadata (lines 96-175), run in a worker process on the file    *)
(* as it is when the worker reads it.  The result is one of                *)
(*   kind "ok"     : (metas, bboxes), possibly both empty;                 *)
(*   kind "fail"   : (exc, None), the captured failure;                    *)
(*   kind "raised" : the call itself raised, which the future re-raises.   *)
(* steps records which content-reading steps ran: "geo" (lines 105-128),   *)
(* "fingerprint" (131-132), "variables" (134-136).  printed records the    *)
(* line the extractor itself printed, if any.                              *)
(***************************************************************************)
Res(kind, metas, bboxes, steps, printed, seen) ==
  [ kind |-> kind, metas |-> metas, bboxes |-> bboxes, steps |-> steps,
    printed |-> printed, seen |-> seen ]

\* The 9-tuple of lines 158-168.
Meta(p, c, vname, datetime_start, datetime_end) ==
  [ file_path |-> p,
    product_name |-> <<VARIABLES_ALIAS[vname], vname>>,
    datetime_start |-> datetime_start,
    datetime_end |-> datetime_end,
    satellite |-> IF GetAttr(c, "platform") # "" THEN GetAttr(c, "platform")
                  ELSE FirstToken(GetAttr(c, "source")),
    instrument |-> GetAttr(c, "instrument"),
    product_type |-> vname,
    size_bytes |-> c.size,
    checksum |-> Checksum(c) ]

\* datetime_start with the filename taken before the attribute.
DatetimeStartFilenameFirst(p, c) ==
  IF extract_times_from_filename(p)[1] # ""
  THEN extract_times_from_filename(p)[1]
  ELSE normalize_datetime(GetAttr(c, "start_time"))

\* Lines 138-147.
DatetimeStart(p, c) ==
  LET s == normalize_datetime(GetAttr(c, "start_time"))
      e == normalize_datetime(GetAttr(c, "stop_time"))
  IN IF s = "" \/ e = ""
     THEN IF s # "" THEN s ELSE extract_times_from_filename(p)[1]
     ELSE s

\* datetime_end with both values taken from the filename as soon as one
\* attribute is missing.
DatetimeEndOverwritten(p, c) ==
  IF normalize_datetime(GetAttr(c, "start_time")) = ""
     \/ normalize_datetime(GetAttr(c, "stop_time")) = ""
  THEN extract_times_from_filename(p)[2]
  ELSE normalize_datetime(GetAttr(c, "stop_time"))

DatetimeEnd(p, c) ==
  LET s == normalize_datetime(GetAttr(c, "start_time"))
      e == normalize_datetime(GetAttr(c, "stop_time"))
  IN IF s = "" \/ e = ""
     THEN IF e # "" THEN e ELSE extract_times_from_filename(p)[2]
     ELSE e

\* matched_vars with the alias filter of line 136 left out.
MatchedVarsUnfiltered(c) == walk_all_variables(c.root)

\* matched_vars: the alias-table variables, in the iteration order of a set.
MatchedVars(c) == walk_all_variables(c.root) \cap DOMAIN VARIABLES_ALIAS

\* bboxes with the append of line 170 moved out of the loop.
BBoxesOnce(order, bbox) == << bbox >>

\* bboxes, line 170: the file's bbox once per matched variable.
BBoxes(order, bbox) == [ i \in DOMAIN order |-> bbox ]

\* The size test with >= for >.
TooBigInclusive(size) == size >= SizeLimit

\* The size test of line 97.
TooBig(size) == size > SizeLimit

\* Lines 97-175 on a file that can be stat-ed and holds c: the set of
\* results the call can produce.
ExtractFile(p, c, d) ==
    IF TooBig(c.size)
    THEN { Res("ok", <<>>, <<>>, {}, "too_big", d) }
    ELSE IF GeoBBox(c) = <<>>
    THEN { Res("fail", <<>>, <<>>, {"geo"}, "", d) }
    ELSE IF ~c.nc_ok
    THEN { Res("fail", <<>>, <<>>, {"geo", "fingerprint"}, "", d) }
    ELSE IF MatchedVars(c) = {}
    THEN { Res("ok", <<>>, <<>>, {"geo", "fingerprint", "variables"}, "", d) }
    ELSE IF \E v \in MatchedVars(c) : v \notin DOMAIN VARIABLES_ALIAS
    THEN \* VARIABLES_ALIAS[vname] of line 156 raises KeyError
         { Res("fail", <<>>, <<>>, {"geo", "fingerprint", "variables"}, "", d) }
    ELSE
      { Res("ok",
            [ i \in DOMAIN order |->
                Meta(p, c, order[i], DatetimeStart(p, c), DatetimeEnd(p, c)) ],
            BBoxes(order, GeoBBox(c)[1]),
            {"geo", "fingerprint", "variables"}, "", d)
        : order \in Orders(MatchedVars(c)) }

\* The set of results the call can produce on directory entry p holding d.
extract_metadata(p, d) ==
  IF d \in {Absent, Dangling}
  THEN \* nc_path.stat() of line 97 is outside the try: it raises.
       { Res("raised", <<>>, <<>>, {}, "", d) }
  ELSE ExtractFile(p, Contents[d], d)

NoResult == Res("none", <<>>, <<>>, {}, "", "")

(***************************************************************************)
(* The store.  A products row is a meta tuple with the id the store gave   *)
(* it; a bbox_index row is [rowid, product_id, bbox].                      *)
(***************************************************************************)
\* The uniqueness key of products: (file_path, product_type).
ProductKey(r) == <<r.file_path, r.product_type>>

\* The rowid the store gives a new row: one more than the largest.
NewId(P) ==
  IF P = {} THEN 1
  ELSE 1 + (CHOOSE m \in {r.id : r \in P} : \A r \in P : r.id <= m)

Row(meta, id) ==
  [ id |-> id, file_path |-> meta.file_path,
    product_name |-> meta.product_name,
    datetime_start |-> meta.datetime_start,
    datetime_end |-> meta.datetime_end, satellite |-> meta.satellite,
    instrument |-> meta.instrument, product_type |-> meta.product_type,
    size_bytes |-> meta.size_bytes, checksum |-> meta.checksum ]

\* The statement with the OR IGNORE left out.
InsProductPlain(P, meta) == P \cup { Row(meta, NewId(P)) }

\* INSERT OR REPLACE: the row of the same key gives way to the new one.
InsProductReplace(P, meta) ==
  LET kept == { r \in P : ProductKey(r) # ProductKey(meta) }
  IN kept \cup { Row(meta, NewId(P)) }

\* The store skips the row without holding one of its key.
Refuses(meta) == ProductKey(meta) \in refused

\* ins_product, lines 198-202: INSERT OR IGNORE INTO products.
InsProduct(P, meta) ==
  IF (\E r \in P : ProductKey(r) = ProductKey(meta)) \/ Refuses(meta)
  THEN P
  ELSE P \cup { Row(meta, NewId(P)) }

\* SELECT id FROM products WHERE file_path = ? AND product_type = ?, then
\* fetchone(): <<id>>, or <<>> for None.
SelectId(P, file_path, product_type) ==
  LET hits == { r.id : r \in { q \in P : q.file_path = file_path
                                        /\ q.product_type = product_type } }
  IN IF hits = {} THEN <<>>
     ELSE << CHOOSE i \in hits : \A j \in hits : i <= j >>

\* The uniqueness key of bbox_index: product_id.
BBoxKey(b) == b.product_id

BBoxRow(B, prod_id, bbox) ==
  [ rowid |-> Cardinality(B) + 1, product_id |-> prod_id, bbox |-> bbox ]

\* The statement with the OR IGNORE left out.
InsBBoxPlain(B, prod_id, bbox) == B \cup { BBoxRow(B, prod_id, bbox) }

\* The conflict taken on the whole row instead of on product_id.
InsBBoxKeyedOnRow(B, prod_id, bbox) ==
  IF \E b \in B : b.product_id = prod_id /\ b.bbox = bbox
  THEN B
  ELSE B \cup { BBoxRow(B, prod_id, bbox) }

\* ins_bbox, lines 203-206: INSERT OR IGNORE INTO bbox_index.
InsBBox(B, prod_id, bbox) ==
  IF \E b \in B : BBoxKey(b) = prod_id
  THEN B
  ELSE B \cup { BBoxRow(B, prod_id, bbox) }

\* _flush with `if metas` for `while metas`: one pair is written.
_flushOnce(P, B, metas, bboxes) ==
  IF metas = <<>>
  THEN [products |-> P, bbox_index |-> B, metas |-> metas, bboxes |-> bboxes]
  ELSE
    LET meta == Head(metas)
        P1x == InsProduct(P, meta)
        row == SelectId(P1x, meta.file_path, meta.product_type)
    IN IF row = <<>>
       THEN [products |-> P1x, bbox_index |-> B, metas |-> Tail(metas),
             bboxes |-> bboxes]
       ELSE [products |-> P1x,
             bbox_index |-> InsBBox(B, row[1], Head(bboxes)),
             metas |-> Tail(metas), bboxes |-> Tail(bboxes)]

\* _flush, lines 233-246: the state of (products, bbox_index, metas, bboxes)
\* when the while loop ends.
RECURSIVE _flush(_, _, _, _)
_flush(P, B, metas, bboxes) ==
  IF metas = <<>>
  THEN [products |-> P, bbox_index |-> B, metas |-> metas, bboxes |-> bboxes]
  ELSE
    LET meta == Head(metas)
        P1x == InsProduct(P, meta)
        row == SelectId(P1x, meta.file_path, meta.product_type)
    IN IF row = <<>>
       THEN _flush(P1x, B, Tail(metas), bboxes)
       ELSE _flush(P1x, InsBBox(B, row[1], Head(bboxes)), Tail(metas),
                   Tail(bboxes))

(***************************************************************************)
(* ingest (lines 177-231).                                                 *)
(***************************************************************************)
\* Lines 182-185: DATA_DIR.rglob("*.nc") filtered by the blacklist.  rglob
\* yields every directory entry at any depth whose name ends in .nc, and
\* nothing when DATA_DIR does not exist.
DiscoverNoBlacklist ==
  IF rootExists
  THEN { p \in Paths : disk[p] # Absent /\ Suffix(p) = ".nc" }
  ELSE {}

Discover ==
  IF rootExists
  THEN { p \in Paths : disk[p] # Absent /\ Suffix(p) = ".nc"
                       /\ Stem(p) \notin BLACKLIST }
  ELSE {}

Line(kind, what) == [kind |-> kind, what |-> what]

\* The early return left out.
NoFilesNever(found) == FALSE

\* The test of line 188, `if not all_nc`.
NoFiles(found) == found = {}

Running(p) == fstate[p] = "running"

\* The order of pool.submit, line 212: that of the list all_nc.
SubmitOrder == <<P1, P2, P3, P4, P5, P7>>

Before(q, p) ==
  \E i, j \in DOMAIN SubmitOrder :
    SubmitOrder[i] = q /\ SubmitOrder[j] = p /\ i < j

\* The futures waited for one by one in submission order.
ReadyInOrder(p) ==
  /\ fstate[p] = "done"
  /\ \A q \in all_nc : Before(q, p) => fstate[q] = "consumed"

\* as_completed, line 214: a future can be handed to the loop once it is
\* complete, whatever the others are doing.
Ready(p) == fstate[p] = "done"

\* The loop waiting for a result of every path, submitted or not.
AllPathsConsumed == \A p \in Paths : fstate[p] = "consumed"

AllConsumed == \A p \in all_nc : fstate[p] = "consumed"

\* The exception leaves ingest(): the pool is shut down, the connection is
\* dropped without a commit and its transaction is rolled back.
Abort(cause) ==
  /\ pc' = "aborted"
  /\ error' = cause
  /\ conn' = "closed"
  /\ txProducts' = products
  /\ txBbox' = bbox_index
  /\ UNCHANGED <<products, bbox_index, commits, flushes, settled>>

\* The store error caught and the loop carried on.
StoreErrorSwallowed ==
  /\ error' = "store"
  /\ UNCHANGED << pc, conn, txProducts, txBbox, products, bbox_index, commits,
                  flushes, settled >>

\* A store statement raises inside ingest(): nothing catches it.
StoreError == Abort("store")

\* Lines 177-212: discovery, the empty return, opening the store and
\* submitting one future per path.
Start(w, storeOk) ==
  /\ UNCHANGED xvars
  /\ pc \in {"idle", "done", "aborted"}
  /\ runs < MaxRuns
  /\ runs' = runs + 1
  /\ runClean' = TRUE
  /\ all_nc' = Discover
  /\ workers' = w
  /\ batch_meta' = <<>>
  /\ batch_bbox' = <<>>
  /\ result' = [p \in Paths |-> NoResult]
  /\ commits' = 0
  /\ flushes' = 0
  /\ UNCHANGED <<rootExists, disk, changes, products, bbox_index>>
  /\ IF NoFiles(Discover)
     THEN /\ pc' = "done"
          /\ error' = ""
          /\ log' = { Line("exists", IF rootExists THEN "True" ELSE "False"),
                      Line("no_files", "") }
          /\ fstate' = [p \in Paths |-> "none"]
          /\ settled' = settled + 1
          /\ UNCHANGED <<conn, txProducts, txBbox>>
     ELSE /\ log' = { Line("exists", "True"), Line("scanning", "") }
          /\ IF storeOk
             THEN /\ pc' = "running"
                  /\ error' = ""
                  /\ conn' = "open"
                  /\ txProducts' = products
                  /\ txBbox' = bbox_index
                  /\ fstate' = [p \in Paths |->
                                  IF p \in Discover THEN "pending" ELSE "none"]
                  /\ UNCHANGED settled
             ELSE \* sqlite3.connect raises at line 195
                  /\ pc' = "aborted"
                  /\ error' = "store"
                  /\ fstate' = [p \in Paths |-> "none"]
                  /\ UNCHANGED <<conn, txProducts, txBbox, settled>>

\* A pool worker takes a submitted call; at most `workers` run at once.
WorkerBegin(p) ==
  /\ UNCHANGED xvars
  /\ pc = "running"
  /\ fstate[p] = "pending"
  /\ Cardinality({q \in Paths : Running(q)}) < workers
  /\ fstate' = [fstate EXCEPT ![p] = "running"]
  /\ UNCHANGED << rootExists, disk, products, bbox_index, txProducts, txBbox,
                  conn, pc, error, workers, all_nc, result, batch_meta,
                  batch_bbox, log, commits, flushes, runs, changes, runClean,
                  settled >>

\* A worker that writes its records to the store itself.
WorkerFinishWrites(p) ==
  /\ UNCHANGED xvars
  /\ pc = "running"
  /\ fstate[p] = "running"
  /\ \E r \in extract_metadata(p, disk[p]) :
       /\ result' = [result EXCEPT ![p] = r]
       /\ txProducts' = _flush(txProducts, txBbox, r.metas, r.bboxes).products
       /\ txBbox' = _flush(txProducts, txBbox, r.metas, r.bboxes).bbox_index
  /\ fstate' = [fstate EXCEPT ![p] = "done"]
  /\ UNCHANGED << rootExists, disk, products, bbox_index,
                  conn, pc, error, workers, all_nc, batch_meta,
                  batch_bbox, log, commits, flushes, runs, changes, runClean,
                  settled >>

\* The worker runs extract_metadata and the future completes.
WorkerFinish(p) ==
  /\ UNCHANGED xvars
  /\ pc = "running"
  /\ fstate[p] = "running"
  /\ \E r \in extract_metadata(p, disk[p]) :
       result' = [result EXCEPT ![p] = r]
  /\ fstate' = [fstate EXCEPT ![p] = "done"]
  /\ UNCHANGED << rootExists, disk, products, bbox_index, txProducts, txBbox,
                  conn, pc, error, workers, all_nc, batch_meta,
                  batch_bbox, log, commits, flushes, runs, changes, runClean,
                  settled >>

\* zip(metas, bboxes) appended to the two deques, lines 220-223.
Appended(batch, items) == batch \o items

\* A commit after every flush of the loop.
LoopCommitEach(committed, flushed) == flushed

\* What a flush inside the loop leaves committed: line 226 is followed by no
\* conn.commit(), so the committed table stays as it was.
LoopCommit(committed, flushed) == committed

\* The test with > for >=.
BatchFullStrict(batch) == Len(batch) > BatchSize

\* The test of line 225.
BatchFull(batch) == Len(batch) >= BatchSize

\* The future handed to the loop stays among those still to be yielded.
MarkStillDone(p) == fstate

\* as_completed yields each future once (line 214): the future the loop
\* body has handled is not yielded again.
MarkConsumed(p) == [fstate EXCEPT ![p] = "consumed"]

\* The loop left at the first captured failure (break for continue).
OnFailureBreak(p) ==
  /\ log' = log \cup { Line("warn", Name(p)) }
  /\ fstate' = [q \in Paths |-> IF q \in all_nc THEN "consumed" ELSE "none"]
  /\ UNCHANGED << products, bbox_index, txProducts, txBbox, conn, pc,
                  error, batch_meta, batch_bbox, commits, flushes, settled >>

\* What the loop does with a captured failure, lines 216-218.
OnFailure(p) ==
  /\ log' = log \cup { Line("warn", Name(p)) }
  /\ fstate' = MarkConsumed(p)
  /\ UNCHANGED << products, bbox_index, txProducts, txBbox, conn, pc,
                  error, batch_meta, batch_bbox, commits, flushes, settled >>

\* One iteration of the as_completed loop, lines 214-226, on a completed
\* future.
Consume(p, storeOk) ==
  /\ UNCHANGED xvars
  /\ pc = "running"
  /\ Ready(p)
  /\ UNCHANGED << rootExists, disk, workers, all_nc, result, runs, changes,
                  runClean >>
  /\ LET r == result[p]
         metas == Appended(batch_meta, r.metas)
         bboxes == Appended(batch_bbox, r.bboxes)
         f == _flush(txProducts, txBbox, metas, bboxes)
     IN
     IF r.kind = "raised"
     THEN \* fut.result() re-raises what the call raised
          /\ Abort("extract")
          /\ UNCHANGED <<fstate, batch_meta, batch_bbox, log>>
     ELSE IF r.kind = "fail"
     THEN OnFailure(p)
     ELSE IF ~BatchFull(metas)
     THEN /\ batch_meta' = metas
          /\ batch_bbox' = bboxes
          /\ fstate' = MarkConsumed(p)
          /\ UNCHANGED << products, bbox_index, txProducts, txBbox, conn, pc,
                          error, log, commits, flushes, settled >>
     ELSE IF storeOk
     THEN /\ txProducts' = f.products
          /\ txBbox' = f.bbox_index
          /\ batch_meta' = f.metas
          /\ batch_bbox' = f.bboxes
          /\ fstate' = MarkConsumed(p)
          /\ products' = LoopCommit(products, f.products)
          /\ bbox_index' = LoopCommit(bbox_index, f.bbox_index)
          /\ flushes' = flushes + 1
          /\ UNCHANGED << conn, pc, error, log, commits, settled >>
     ELSE \* a statement of _flush raises
          /\ StoreError
          /\ batch_meta' = metas
          /\ batch_bbox' = bboxes
          /\ UNCHANGED <<fstate, log>>

\* Lines 228-231, after the loop: the final flush, the commit, the close.
Finish(storeOk) ==
  /\ UNCHANGED xvars
  /\ pc = "running"
  /\ AllConsumed
  /\ UNCHANGED << rootExists, disk, workers, all_nc, fstate, result, runs,
                  changes, runClean >>
  /\ LET f == _flush(txProducts, txBbox, batch_meta, batch_bbox) IN
     IF storeOk
     THEN /\ products' = f.products
          /\ bbox_index' = f.bbox_index
          /\ txProducts' = f.products
          /\ txBbox' = f.bbox_index
          /\ batch_meta' = f.metas
          /\ batch_bbox' = f.bboxes
          /\ commits' = commits + 1
          /\ flushes' = flushes + 1
          /\ conn' = "closed"
          /\ pc' = "done"
          /\ log' = log \cup { Line("completed", "") }
          /\ settled' = IF runClean THEN settled + 1 ELSE 0
          /\ UNCHANGED error
     ELSE /\ StoreError
          /\ UNCHANGED <<batch_meta, batch_bbox, log>>

\* The process is terminated from outside while the run is in flight.
Crash ==
  /\ UNCHANGED xvars
  /\ pc = "running"
  /\ Abort("crash")
  /\ UNCHANGED << rootExists, disk, workers, all_nc, fstate, result,
                  batch_meta, batch_bbox, log, runs, changes, runClean >>

(***************************************************************************)
(* The environment: the acquisition subsystem and the operator change the  *)
(* directory at any time.                                                  *)
(***************************************************************************)
EnvChanged ==
  /\ UNCHANGED xvars
  /\ changes < MaxChanges
  /\ changes' = changes + 1
  /\ runClean' = FALSE
  /\ settled' = 0
  /\ UNCHANGED << products, bbox_index, txProducts, txBbox, conn, pc,
                  error, workers, all_nc, fstate, result, batch_meta,
                  batch_bbox, log, commits, flushes, runs >>

ChangeFile(p, d) ==
  /\ d \in Options(p) \ {disk[p]}
  /\ disk' = [disk EXCEPT ![p] = d]
  /\ UNCHANGED rootExists
  /\ EnvChanged

ToggleRoot ==
  /\ rootExists' = ~rootExists
  /\ UNCHANGED disk
  /\ EnvChanged

PipelineInit ==
  /\ rootExists = TRUE
  /\ disk \in { d \in [Paths -> ContentIds \cup {Absent, Dangling}] :
                  /\ \A p \in Paths : d[p] \in Options(p)
                  /\ d[P1] = "two"
                  /\ d[P3] # Absent }
  /\ products = {}
  /\ bbox_index = {}
  /\ txProducts = {}
  /\ txBbox = {}
  /\ conn = "closed"
  /\ pc = "idle"
  /\ error = ""
  /\ workers = 1
  /\ all_nc = {}
  /\ fstate = [p \in Paths |-> "none"]
  /\ result = [p \in Paths |-> NoResult]
  /\ batch_meta = <<>>
  /\ batch_bbox = <<>>
  /\ log = {}
  /\ commits = 0
  /\ flushes = 0
  /\ runs = 0
  /\ changes = 0
  /\ runClean = TRUE
  /\ settled = 0
  /\ refused = {}
  /\ table = {}
  /\ ops = 0

Init ==
  /\ PipelineInit
  /\ xpath = P1
  /\ xfile = Contents["two"]
  /\ xres = NoResult

Next ==
  \/ \E w \in 1..MaxWorkers, storeOk \in BOOLEAN : Start(w, storeOk)
  \/ \E p \in Paths : WorkerBegin(p)
  \/ \E p \in Paths : WorkerFinish(p)
  \/ \E p \in Paths, storeOk \in BOOLEAN : Consume(p, storeOk)
  \/ \E storeOk \in BOOLEAN : Finish(storeOk)
  \/ Crash
  \/ \E p \in Paths, d \in ContentIds \cup {Absent, Dangling} : ChangeFile(p, d)
  \/ ToggleRoot

Spec == Init /\ [][Next]_vars

(***************************************************************************)
(* ingest() over a directory that holds trsp.nc next to A and              *)
(* geodetic_in.nc.                                                         *)
(***************************************************************************)
DInit ==
  /\ rootExists = TRUE
  /\ disk = [p \in Paths |->
              CASE p \in {P2, P3} -> Absent [] p = P7 -> "novars"
                [] OTHER -> "two"]
  /\ products = {}
  /\ bbox_index = {}
  /\ txProducts = {}
  /\ txBbox = {}
  /\ conn = "closed"
  /\ pc = "idle"
  /\ error = ""
  /\ workers = 1
  /\ all_nc = {}
  /\ fstate = [p \in Paths |-> "none"]
  /\ result = [p \in Paths |-> NoResult]
  /\ batch_meta = <<>>
  /\ batch_bbox = <<>>
  /\ log = {}
  /\ commits = 0
  /\ flushes = 0
  /\ runs = 0
  /\ changes = 0
  /\ runClean = TRUE
  /\ settled = 0
  /\ refused = {}
  /\ table = {}
  /\ ops = 0
  /\ xpath = P1
  /\ xfile = Contents["two"]
  /\ xres = NoResult

SpecDiscover == DInit /\ [][Next]_vars

(***************************************************************************)
(* extract_metadata taken alone: one call, on a path and a file drawn from *)
(* the sets below.                                                         *)
(***************************************************************************)
XPaths == {P1, P3, P6}

XCoords ==
  { <<>>,
    << [lat |-> <<10, NaN, 20>>, lon |-> <<-5, 5>>] >>,
    << [lat |-> <<NaN, NaN>>, lon |-> <<7, 3>>] >> }

XCorners ==
  { [lat |-> <<>>, lon |-> <<>>],
    [lat |-> << <<0, 40>>, <<4, 44>>, <<8, 48>>, <<12, 52>> >>,
     lon |-> << <<-8, 0>>, <<-4, 4>>, <<0, 8>>, <<4, 12>> >>],
    [lat |-> << <<10, 20>>, <<12, 22>>, <<14, 24>>, <<16, 26>> >>,
     lon |-> << <<-20, 100>>, <<-16, 104>>, <<-12, 108>>, <<-8, NaN>> >>],
    [lat |-> << <<0, 40>>, <<4, 44>>, <<8, 48>> >>,
     lon |-> << <<-8, 0>>, <<-4, 4>>, <<0, 8>>, <<4, 12>> >>] }

XRaw == { <<>>, << [lat |-> <<-30, -40>>, lon |-> <<100, 120>>] >> }

XRoots ==
  { Group({"foo", "lat"}, <<>>),
    Group({"foo"}, <<Group({"bar"}, <<Group({"baz"}, <<>>)>>)>>),
    Group({"sst", "wind_speed"}, <<>>),
    Group({"time"}, <<Group({"cloud_fraction"}, <<>>)>>),
    Group({"sst"}, <<Group({"sst", "bar"}, <<Group({"wind_speed"}, <<>>)>>)>>) }

XStarts == { NoVal, "2024-02-02T00:00:00Z", "garbage" }

XStops == { NoVal, "2024-02-02T01:00:00Z", "2 Feb 2024 01:00", "garbage" }

XFiles ==
  { [ size |-> 4096, prefix |-> "aa", xr_ok |-> xr, nc_ok |-> nc,
      coords |-> co, corner_lat |-> cn.lat, corner_lon |-> cn.lon,
      raw |-> rw, root |-> rt,
      attrs |-> Attrs(st, sp, pl, "MODEL run 7", "SLSTR") ]
    : xr \in BOOLEAN, nc \in BOOLEAN, co \in XCoords, cn \in XCorners,
      rw \in XRaw, rt \in XRoots, st \in XStarts, sp \in XStops,
      pl \in {NoVal, "Sentinel-3A"} }

pvars ==
  << rootExists, disk, products, bbox_index, txProducts, txBbox, conn, pc,
     error, workers, all_nc, fstate, result, batch_meta, batch_bbox,
     log, commits, flushes, runs, changes, runClean, settled >>

XInit ==
  /\ PipelineInit
  /\ disk[P2] = "novars" /\ disk[P3] = "edge"
  /\ xpath \in XPaths
  /\ xfile \in XFiles
  /\ xres = NoResult

\* The call of extract_metadata(xpath) on a file that can be stat-ed.
XExtract ==
  /\ xres = NoResult
  /\ xres' \in ExtractFile(xpath, xfile, "input")
  /\ UNCHANGED <<pvars, xpath, xfile, refused, table, ops>>

XNext == XExtract

SpecExtract == XInit /\ [][XNext]_vars

(***************************************************************************)
(* The visualization client (src/gui/main.py), another writer of the       *)
(* store, next to ingest().                                                *)
(***************************************************************************)
\* The ingest connection holds the write lock from the first statement of
\* its first flush until it commits or is dropped; a DELETE of another
\* connection then raises and the handler's except reports it.
StoreLocked == pc = "running" /\ flushes > 0

\* What the client keeps of a fetched row.
Item(r) == [id |-> r.id, file_path |-> r.file_path]

\* self.query() / clear_filters(): the table is replaced by what the API
\* returns, or left as it is when the request fails.
Fetched == { table, { Item(r) : r \in products } }

\* Path(nc_path).exists() of lines 812 and 881.
Exists(file_path) == rootExists /\ disk[file_path] \notin {Absent, Dangling}

\* DELETE FROM products WHERE id = ?, line 819.
DelProduct(P, id) == { r \in P : r.id # id }

\* The second DELETE left out.
DelBBoxForgotten(B, id) == B

\* DELETE FROM bbox_index WHERE product_id = ?, line 820.
DelBBox(B, id) == { b \in B : b.product_id # id }

\* _on_visualize on a selected row whose file is gone, lines 812-826: the
\* two DELETEs, one commit, then self.query().
GuiDelete(item) ==
  /\ item \in table
  /\ ~Exists(item.file_path)
  /\ ~StoreLocked
  /\ ops < MaxOps
  /\ ops' = ops + 1
  /\ products' = DelProduct(products, item.id)
  /\ bbox_index' = DelBBox(bbox_index, item.id)
  /\ txProducts' = IF pc = "running" THEN products' ELSE txProducts
  /\ txBbox' = IF pc = "running" THEN bbox_index' ELSE txBbox
  /\ table' \in { table, { Item(r) : r \in products' } }
  /\ settled' = 0
  /\ UNCHANGED << rootExists, disk, conn, pc, error, workers, all_nc, fstate,
                  result, batch_meta, batch_bbox, log, commits, flushes,
                  runs, changes, runClean, xpath, xfile, xres, refused >>

\* reset_db / reset_database, lines 89-99 and 654-665: both tables are
\* emptied in one commit, then clear_filters() fetches again.
GuiReset ==
  /\ ~StoreLocked
  /\ ops < MaxOps
  /\ ops' = ops + 1
  /\ products' = {}
  /\ bbox_index' = {}
  /\ txProducts' = IF pc = "running" THEN {} ELSE txProducts
  /\ txBbox' = IF pc = "running" THEN {} ELSE txBbox
  /\ table' \in { table, {} }
  /\ settled' = 0
  /\ UNCHANGED << rootExists, disk, conn, pc, error, workers, all_nc, fstate,
                  result, batch_meta, batch_bbox, log, commits, flushes,
                  runs, changes, runClean, xpath, xfile, xres, refused >>

\* query(), lines 703-741.
GuiQuery ==
  /\ table' \in Fetched
  /\ table' # table
  /\ UNCHANGED << pvars, xpath, xfile, xres, refused, ops >>

SInit ==
  /\ PipelineInit
  /\ disk[P2] = "novars" /\ disk[P3] = "edge"
  /\ xpath = P1
  /\ xfile = Contents["two"]
  /\ xres = NoResult

\* Every row the table can show: no more ids are given out than there are
\* (file_path, product_type) keys.
Items ==
  { [id |-> i, file_path |-> p] :
      i \in 1..(Cardinality(Paths) * Cardinality(DOMAIN VARIABLES_ALIAS)),
      p \in Paths }

\* Runs of ingest() with one worker and no store error, the selected file
\* disappearing, and the client.
SNext ==
  \/ Start(1, TRUE)
  \/ \E p \in Paths : WorkerBegin(p)
  \/ \E p \in Paths : WorkerFinish(p)
  \/ \E p \in Paths : Consume(p, TRUE)
  \/ Finish(TRUE)
  \/ Crash
  \/ ChangeFile(P3, Absent)
  \/ \E item \in Items : GuiDelete(item)
  \/ GuiReset
  \/ GuiQuery

SpecStore == SInit /\ [][SNext]_vars

(***************************************************************************)
(* Runs in which every call of extract_metadata returns and the store      *)
(* raises nothing: the files can all be stat-ed and stay so, the pool runs *)
(* every submitted call, each call ends, and the loop and the code after   *)
(* it run on.  The process can still be terminated from outside.           *)
(***************************************************************************)
LInit ==
  /\ PipelineInit
  /\ disk[P3] \in ContentIds
  /\ xpath = P1
  /\ xfile = Contents["two"]
  /\ xres = NoResult

LNext ==
  \/ \E w \in 1..MaxWorkers : Start(w, TRUE)
  \/ \E p \in Paths : WorkerBegin(p)
  \/ \E p \in Paths : WorkerFinish(p)
  \/ \E p \in Paths : Consume(p, TRUE)
  \/ Finish(TRUE)
  \/ Crash

SpecLive ==
  /\ LInit
  /\ [][LNext]_vars
  /\ WF_vars(\E p \in Paths : WorkerBegin(p))
  /\ WF_vars(\E p \in Paths : WorkerFinish(p))
  /\ WF_vars(\E p \in Paths : Consume(p, TRUE))
  /\ WF_vars(Finish(TRUE))

(***************************************************************************)
(* _flush taken alone: one call, on two deques of up to MaxBatch pairs and *)
(* a store that may skip an insert without holding a row of its key.       *)
(***************************************************************************)
\* The (meta, bbox) pairs zip(metas, bboxes) makes of a result.
PairsOf(p, d) ==
  UNION { { [meta |-> r.metas[i], bbox |-> r.bboxes[i]]
            : i \in DOMAIN r.metas }
          : r \in extract_metadata(p, d) }

FPairs == PairsOf(P1, "two") \cup PairsOf(P2, "two_v2") \cup PairsOf(P3, "edge")

FBatches ==
  { b \in UNION { [1..n -> FPairs] : n \in 1..MaxBatch } :
      \A i, j \in DOMAIN b : i # j => b[i] # b[j] }

\* The store before the call: empty, or holding the sst row of file A and
\* its bounding box.
FStored == CHOOSE q \in PairsOf(P1, "two") : q.meta.product_type = "sst"

FStores ==
  { [products |-> {}, bbox_index |-> {}],
    [products |-> { Row(FStored.meta, 1) },
     bbox_index |-> { BBoxRow({}, 1, FStored.bbox) }] }

FInit ==
  /\ refused \in SUBSET { ProductKey(q.meta) : q \in FPairs }
  /\ rootExists = TRUE
  /\ disk = [p \in Paths |->
              CASE p = P2 -> "novars" [] p = P3 -> "edge" [] p = P7 -> Absent
                [] OTHER -> "two"]
  /\ products = {}
  /\ bbox_index = {}
  /\ \E st \in FStores : txProducts = st.products /\ txBbox = st.bbox_index
  /\ conn = "open"
  /\ pc = "running"
  /\ error = ""
  /\ workers = 1
  /\ all_nc = {}
  /\ fstate = [p \in Paths |-> "none"]
  /\ result = [p \in Paths |-> NoResult]
  /\ \E b \in FBatches :
       /\ batch_meta = [i \in DOMAIN b |-> b[i].meta]
       /\ batch_bbox = [i \in DOMAIN b |-> b[i].bbox]
  /\ log = {}
  /\ commits = 0
  /\ flushes = 0
  /\ runs = 1
  /\ changes = 0
  /\ runClean = TRUE
  /\ settled = 0
  /\ xpath = P1
  /\ xfile = Contents["two"]
  /\ xres = NoResult
  /\ table = {}
  /\ ops = 0

\* The call _flush(cur, ins_product, ins_bbox, batch_meta, batch_bbox).
FFlush ==
  /\ flushes = 0
  /\ LET f == _flush(txProducts, txBbox, batch_meta, batch_bbox) IN
     /\ txProducts' = f.products
     /\ txBbox' = f.bbox_index
     /\ batch_meta' = f.metas
     /\ batch_bbox' = f.bboxes
  /\ flushes' = 1
  /\ UNCHANGED << rootExists, disk, products, bbox_index, conn, pc, error,
                  workers, all_nc, fstate, result, log, commits, runs,
                  changes, runClean, settled, xvars >>

FNext == FFlush

SpecFlush == FInit /\ [][FNext]_vars

(***************************************************************************)
(* Properties.                                                             *)
(***************************************************************************)
StoreUnchanged == products' = products /\ bbox_index' = bbox_index

\* A step in which ingest() returns after its commit (line 229-231).
Returns == pc = "running" /\ pc' = "done"

\* A products row without its id, and the bounding boxes stored for it.
MetaOf(r) ==
  [ file_path |-> r.file_path, product_name |-> r.product_name,
    datetime_start |-> r.datetime_start, datetime_end |-> r.datetime_end,
    satellite |-> r.satellite, instrument |-> r.instrument,
    product_type |-> r.product_type, size_bytes |-> r.size_bytes,
    checksum |-> r.checksum ]

Content(P, B) ==
  { [ meta |-> MetaOf(r),
      bboxes |-> { b.bbox : b \in { x \in B : x.product_id = r.id } } ]
    : r \in P }

\* The records the files on disk hold, whatever the order they come in.
RecordsOf(p) ==
  UNION { { [meta |-> r.metas[i], bboxes |-> {r.bboxes[i]}]
            : i \in DOMAIN r.metas }
          : r \in extract_metadata(p, disk[p]) }

HasKey(P, meta) == \E r \in P : ProductKey(r) = ProductKey(meta)

\* C1: once a run has completed over the file set as it is now, a further
\* run over the unchanged file set leaves products and bbox_index with
\* exactly the rows they had: no step changes the committed store.
C1_Idempotent == [][settled >= 1 => StoreUnchanged]_vars

\* A second run has committed over the file set the first one ingested.
C1_Witness ==
  /\ settled = 2 /\ pc = "done" /\ commits = 1
  /\ Cardinality(products) >= 2 /\ bbox_index # {}

\* C2: in every store state, committed or inside the open transaction, no
\* two rows of products share (file_path, product_type).
C2_UniqueKey ==
  \A P \in {products, txProducts} :
    \A r1 \in P, r2 \in P : ProductKey(r1) = ProductKey(r2) => r1 = r2

\* A second run re-ingested a file that had changed since its rows were
\* stored.
C2_Witness ==
  /\ pc = "done" /\ runs = 2 /\ commits = 1 /\ disk[P1] = "two_v2"
  /\ \E r \in products : r.file_path = P1 /\ r.size_bytes = 4096
  /\ fstate[P1] = "consumed"

\* C3: when a run over a fixed file set returns, the committed content (rows
\* by key and attributes, each with its bounding box) is what the store held
\* plus the records of the discovered files whose key was new, for every
\* worker count and every completion and consumption order.
C3_OrderInvariant ==
  [][ (Returns /\ runClean) =>
        Content(products', bbox_index') =
          Content(products, bbox_index) \cup
            { e \in UNION { RecordsOf(p) : p \in all_nc } :
                ~HasKey(products, e.meta) } ]_vars

\* Two workers, and the rows of C.nc were stored before those of A.
C3_Witness ==
  /\ pc = "done" /\ runClean /\ workers = 2 /\ commits = 1
  /\ \E r \in products : r.file_path = P3 /\ r.id = 1
  /\ \E r \in products : r.file_path = P1 /\ r.id = 3

\* C4: one bad file never halts the run: a run ends without returning only
\* because of the store or because the process was terminated, never because
\* of the extraction of a file.
C4_BadFileNeverHalts == pc = "aborted" => error \in {"store", "crash"}

\* C5: extract_metadata never raises to its caller: every completed future
\* holds a record list or the captured failure.
C5_NeverRaises ==
  \A p \in Paths :
    fstate[p] \in {"done", "consumed"} => result[p].kind \in {"ok", "fail"}

\* C6: when ingest() returns, every discovered file has had its result
\* consumed, both buffers are empty, and every record of every successful
\* extraction has a committed products row with its key.
C6_Complete ==
  [][ Returns =>
        /\ AllConsumed
        /\ batch_meta' = <<>> /\ batch_bbox' = <<>>
        /\ \A p \in all_nc :
             \A i \in DOMAIN result[p].metas :
               HasKey(products', result[p].metas[i]) ]_vars

\* A run returned with the records of two files stored, one file having
\* failed.
C6_Witness ==
  /\ pc = "done" /\ commits = 1 /\ flushes >= 2
  /\ result[P2].kind = "fail"
  /\ \E r \in products : r.file_path = P1
  /\ \E r \in products : r.file_path = P3

\* C7: the committed store changes only in the step that ends the run, after
\* the final flush and with every result consumed, and that step is the
\* run's only commit; a run that is still going or was interrupted has
\* committed nothing.
C7_SingleCommit ==
  /\ [][ ~StoreUnchanged =>
           /\ Returns /\ AllConsumed
           /\ commits = 0 /\ commits' = 1
           /\ batch_meta' = <<>>
           /\ products' = txProducts' /\ bbox_index' = txBbox' ]_vars
  /\ [](pc \in {"running", "aborted"} => commits = 0)
  /\ []((pc = "done" /\ all_nc # {}) => commits = 1)

\* A run was terminated after a batch had been flushed: nothing of it is
\* committed.
C7_Witness ==
  /\ pc = "aborted" /\ error = "crash" /\ flushes >= 1
  /\ products = {} /\ bbox_index = {}

\* C8: once a store statement has failed the run is over: it has not
\* committed, the connection is gone with its transaction, and the results
\* not yet consumed stay unconsumed.
C8_StoreFatal ==
  /\ [](error = "store" =>
          /\ pc = "aborted" /\ commits = 0 /\ conn = "closed"
          /\ txProducts = products /\ txBbox = bbox_index)
  /\ [][ (pc = "aborted" /\ runs' = runs) =>
           (pc' = "aborted" =>
              /\ StoreUnchanged
              /\ UNCHANGED <<txProducts, txBbox, fstate, batch_meta>>) ]_vars

\* The store failed in a flush while another file's records were waiting.
C8_Witness ==
  /\ pc = "aborted" /\ error = "store"
  /\ \E p \in all_nc : fstate[p] = "done" /\ result[p].metas # <<>>
  /\ \E p \in all_nc : fstate[p] = "consumed"

\* C9: a run over an absent root directory (or one with no candidate file)
\* reports it, submits no extraction, leaves the store closed and untouched
\* and returns.
C9_EmptyRun ==
  /\ ((runs >= 1 /\ runClean /\ ~rootExists) => (pc = "done" /\ all_nc = {}))
  /\ (all_nc = {} /\ runs >= 1) =>
        /\ pc = "done" /\ error = "" /\ conn = "closed"
        /\ commits = 0 /\ flushes = 0
        /\ Line("no_files", "") \in log
        /\ \A p \in Paths : fstate[p] = "none"
        /\ txProducts = products /\ txBbox = bbox_index

\* A run found the root directory gone, after an earlier run had filled the
\* store.
C9_Witness ==
  /\ runs = 2 /\ runClean /\ ~rootExists /\ pc = "done"
  /\ products # {} /\ Line("exists", "False") \in log

\* C10: a file larger than 700 MiB yields the empty result with none of the
\* content-reading steps run; a file of exactly 700 MiB goes through all of
\* them and yields its records.
C10_SizeGuard ==
  \A p \in Paths :
    (fstate[p] \in {"done", "consumed"} /\ result[p].seen \in ContentIds) =>
      LET c == Contents[result[p].seen] IN
      /\ c.size > 700 * 1024 * 1024 =>
           /\ result[p].kind = "ok"
           /\ result[p].metas = <<>> /\ result[p].bboxes = <<>>
           /\ result[p].steps = {}
      /\ (c.size = 700 * 1024 * 1024 /\ c.xr_ok /\ c.nc_ok) =>
           /\ result[p].kind = "ok"
           /\ result[p].steps = {"geo", "fingerprint", "variables"}
           /\ Len(result[p].metas) = Cardinality(MatchedVars(c))

\* A run returned having skipped the oversized file, whose alias-table
\* variable would otherwise have given a row.
C10_Witness ==
  /\ pc = "done" /\ commits = 1
  /\ result[P3].seen = "big" /\ fstate[P3] = "consumed"
  /\ "sst" \in MatchedVars(Contents["big"])
  /\ \A r \in products : r.file_path # P3
  /\ \E r \in products : r.file_path = P1

(***************************************************************************)
(* Properties of extract_metadata taken alone (SpecExtract).               *)
(***************************************************************************)
\* The call has returned.
XReturned == xres.kind # "none"

\* The variable names of a file, read off its tree level by level (the
\* trees used here have at most three levels).
NamesAtAnyDepth(g) ==
  g.variables \cup
  UNION { g.groups[i].variables \cup
          UNION { g.groups[i].groups[j].variables \cup
                  UNION { g.groups[i].groups[j].groups[k].variables :
                            k \in DOMAIN g.groups[i].groups[j].groups }
                  : j \in DOMAIN g.groups[i].groups }
          : i \in DOMAIN g.groups }

AliasNames(c) == NamesAtAnyDepth(c.root) \cap DOMAIN VARIABLES_ALIAS

Blank(r, fields) ==
  [ f \in DOMAIN r |-> IF f \in fields THEN "" ELSE r[f] ]

\* The fan-out count: N matched variables give N records and N bboxes, one
\* record for each matched variable.
FanOutCount ==
  /\ Len(xres.metas) = Cardinality(AliasNames(xfile))
  /\ Len(xres.bboxes) = Len(xres.metas)
  /\ { xres.metas[i].product_type : i \in DOMAIN xres.metas }
       = AliasNames(xfile)
  /\ \A i, j \in DOMAIN xres.metas :
       i # j => xres.metas[i].product_type # xres.metas[j].product_type

\* C12, as stated: the records of one file differ only in product_type.
C12_DifferOnlyInType ==
  (XReturned /\ xres.kind = "ok" /\ xfile.size <= SizeLimit) =>
    /\ FanOutCount
    /\ \A i, j \in DOMAIN xres.metas :
         /\ xres.bboxes[i] = xres.bboxes[j]
         /\ Blank(xres.metas[i], {"product_type"})
              = Blank(xres.metas[j], {"product_type"})

\* C12. Fan-out consistency: a file with N matched variables yields exactly
\* N records with pairwise distinct product_type, one for each matched
\* variable; the records share bbox, file_path, datetime_start,
\* datetime_end, satellite, instrument, size_bytes and checksum, and differ
\* in product_type and in product_name, which is the alias of the variable
\* followed by the variable name.
C12_FanOut ==
  (XReturned /\ xres.kind = "ok" /\ xfile.size <= SizeLimit) =>
    /\ FanOutCount
    /\ \A i, j \in DOMAIN xres.metas :
         /\ xres.bboxes[i] = xres.bboxes[j]
         /\ Blank(xres.metas[i], {"product_type", "product_name"})
              = Blank(xres.metas[j], {"product_type", "product_name"})
    /\ \A i \in DOMAIN xres.metas :
         xres.metas[i].product_name =
           << VARIABLES_ALIAS[xres.metas[i].product_type],
              xres.metas[i].product_type >>

\* A file with sst in two groups and wind_speed in a third gave two
\* records, sst and wind_speed, with the bbox of the corner strategy.
C12_Witness ==
  /\ xres.kind = "ok" /\ Len(xres.metas) = 2
  /\ { xres.metas[i].product_type : i \in {1, 2} } = {"sst", "wind_speed"}
  /\ Cardinality(DOMAIN xfile.root.groups) = 1
  /\ "sst" \in xfile.root.variables
  /\ "sst" \in xfile.root.groups[1].variables
  /\ xfile.xr_ok /\ xfile.coords = <<>> /\ Len(xfile.corner_lat) = 4
  /\ xres.bboxes[1] = xres.bboxes[2]
  /\ xres.metas[1].product_name # xres.metas[2].product_name

\* A filename timestamp written out with separators, digit for digit.
WrittenOut(stamp) ==
  CASE stamp = "20240101T000000" -> "2024-01-01T00:00:00"
    [] stamp = "20240101T010000" -> "2024-01-01T01:00:00"
    [] stamp = "20241340T000000" -> "2024-13-40T00:00:00"

\* The filename timestamps that are dates.
IsDate(stamp) == stamp \in {"20240101T000000", "20240101T010000"}

\* The start and end attributes are both present and parseable.
BothParse(c) ==
  /\ c.attrs.start_time # NoVal /\ c.attrs.stop_time # NoVal
  /\ normalize_datetime(c.attrs.start_time) # ""
  /\ normalize_datetime(c.attrs.stop_time) # ""

BothAbsent(c) == c.attrs.start_time = NoVal /\ c.attrs.stop_time = NoVal

\* Every record of the result carries these two timestamps.
Stamped(s, e) ==
  \A i \in DOMAIN xres.metas :
    xres.metas[i].datetime_start = s /\ xres.metas[i].datetime_end = e

\* C13, as stated: with both attributes absent and a filename that fits the
\* pattern, the timestamps are the first and second filename timestamps.
C13_FilenameWheneverMatched ==
  (XReturned /\ xres.kind = "ok") =>
    /\ BothParse(xfile) =>
         Stamped(normalize_datetime(xfile.attrs.start_time),
                 normalize_datetime(xfile.attrs.stop_time))
    /\ (BothAbsent(xfile) /\ StemStamps(xpath) # <<>>) =>
         Stamped(WrittenOut(StemStamps(xpath)[1]),
                 WrittenOut(StemStamps(xpath)[2]))
    /\ (BothAbsent(xfile) /\ StemStamps(xpath) = <<>>) => Stamped("", "")

\* C13. Timestamp fallback precedence: when the start and end attributes
\* are both present and parseable, datetime_start and datetime_end are the
\* normalized attribute values and the filename is not used; when both are
\* absent and the filename fits the pattern with two groups that are both
\* dates, they are the first and second filename timestamps; when both are
\* absent and the filename fits the pattern with a group that is no date,
\* or does not fit it, both are empty.
C13_Precedence ==
  (XReturned /\ xres.kind = "ok") =>
    /\ BothParse(xfile) =>
         Stamped(normalize_datetime(xfile.attrs.start_time),
                 normalize_datetime(xfile.attrs.stop_time))
    /\ (/\ BothAbsent(xfile) /\ StemStamps(xpath) # <<>>
        /\ IsDate(StemStamps(xpath)[1]) /\ IsDate(StemStamps(xpath)[2])) =>
         Stamped(WrittenOut(StemStamps(xpath)[1]),
                 WrittenOut(StemStamps(xpath)[2]))
    /\ (/\ BothAbsent(xfile) /\ StemStamps(xpath) # <<>>
        /\ ~(IsDate(StemStamps(xpath)[1]) /\ IsDate(StemStamps(xpath)[2]))) =>
         Stamped("", "")
    /\ (BothAbsent(xfile) /\ StemStamps(xpath) = <<>>) => Stamped("", "")

\* A file named with two timestamps whose attributes both parse (the end
\* only leniently) gave records stamped from the attributes.
C13_Witness ==
  /\ xres.kind = "ok" /\ xres.metas # <<>>
  /\ xpath = P1 /\ StemStamps(xpath) # <<>>
  /\ xfile.attrs.start_time = "2024-02-02T00:00:00Z"
  /\ xfile.attrs.stop_time = "2 Feb 2024 01:00"
  /\ xres.metas[1].datetime_start = "2024-02-02T00:00:00"
  /\ xres.metas[1].datetime_end = "2024-02-02T01:00:00"

(***************************************************************************)
(* Bounding boxes in the store.                                            *)
(***************************************************************************)
\* C14, as stated: a bbox_index row is inserted only when a bounding box is
\* present, so no row, committed or in the open transaction, holds the
\* all-None bounding box.
C14_NoRowWithoutBBox ==
  \A b \in bbox_index \cup txBbox : b.bbox # NoneBBox

\* C15. At most one BoundingBox per Product: in every store state, committed
\* or inside the open transaction, bbox_index holds at most one row for
\* each product id.
C15_OneBBoxPerProduct ==
  \A B \in {bbox_index, txBbox} :
    \A b1 \in B, b2 \in B : b1.product_id = b2.product_id => b1 = b2

\* A second run re-ingested the file A after its coordinates had changed;
\* each of its products has the one row of the first run.
C15_Witness ==
  /\ pc = "done" /\ runs = 2 /\ result[P1].seen = "two_v2"
  /\ fstate[P1] = "consumed"
  /\ \E r \in products :
       /\ r.file_path = P1
       /\ { b.bbox : b \in { x \in bbox_index : x.product_id = r.id } }
            = { <<10, 20, -5, 5>> }

\* lat_min <= lat_max and lon_min <= lon_max; a comparison with NaN or
\* with None does not hold.
Ordered(b) ==
  /\ b # NoneBBox
  /\ \A i \in 1..4 : b[i] # NaN
  /\ b[1] <= b[2]
  /\ b[3] <= b[4]

\* C16, as stated: every bounding box extract_metadata produces (other than
\* the absent, all-None one) and every bbox_index row is ordered.
C16_Ordered ==
  /\ \A i \in DOMAIN xres.bboxes :
       xres.bboxes[i] # NoneBBox => Ordered(xres.bboxes[i])
  /\ \A p \in Paths : \A i \in DOMAIN result[p].bboxes :
       result[p].bboxes[i] # NoneBBox => Ordered(result[p].bboxes[i])
  /\ \A b \in bbox_index \cup txBbox : Ordered(b.bbox)

\* C17, as stated: a consumed file over the size guard, or one netCDF4 can
\* open that has no alias-table variable, gave zero records, was not
\* reported by the loop and made the extractor print nothing; the files
\* the loop reported are files whose extraction gave the failure result.
C17_SilentSkips ==
  \A p \in Paths :
    /\ (fstate[p] = "consumed" /\ result[p].seen \in ContentIds) =>
         LET c == Contents[result[p].seen] IN
         (c.size > SizeLimit \/ (c.nc_ok /\ AliasNames(c) = {})) =>
           /\ result[p].kind = "ok"
           /\ result[p].metas = <<>>
           /\ Line("warn", Name(p)) \notin log
           /\ result[p].printed = ""
    /\ Line("warn", Name(p)) \in log => result[p].kind = "fail"

\* C18. Append-only store: no step of ingest() removes or changes a
\* committed row of products or bbox_index, and inside a run no statement
\* removes or changes a row of the open transaction; a row whose key exists
\* keeps every attribute, size_bytes and checksum included.
C18_AppendOnly ==
  [][ /\ products \subseteq products'
      /\ bbox_index \subseteq bbox_index'
      /\ (pc = "running" /\ pc' \in {"running", "done"}) =>
           /\ txProducts \subseteq txProducts'
           /\ txBbox \subseteq txBbox' ]_vars

\* After the file A changed in size, content, times and platform, a second
\* run committed; the rows of A are the two of the first run, unchanged.
C18_Witness ==
  /\ pc = "done" /\ runs = 2 /\ commits = 1
  /\ result[P1].seen = "two_v2" /\ Len(result[P1].metas) = 2
  /\ Cardinality({ r \in products : r.file_path = P1 }) = 2
  /\ \A r \in products :
       r.file_path = P1 =>
         /\ r.size_bytes = 4096 /\ r.checksum = Checksum(Contents["two"])
         /\ r.satellite = "Sentinel-3A"
         /\ r.datetime_start = "2024-02-02T00:00:00"

\* C19. File discovery: in a run during which the directory has not
\* changed, the files submitted are exactly the entries under the root, at
\* any depth, named *.nc whose stem is not excluded: of the five paths, A,
\* sub/B and C when present, never geodetic_in.nc and never notes.txt.
C19_Discovery ==
  (pc = "running" /\ runClean) =>
    /\ all_nc = { p \in {P1, P2, P3} : disk[p] # Absent }
    /\ { p \in Paths : fstate[p] # "none" } = all_nc

\* A run submitted A, sub/B and C and left out the excluded and the
\* non-.nc entry, both present.
C19_Witness ==
  /\ pc = "running" /\ runClean
  /\ all_nc = {P1, P2, P3}
  /\ disk[P4] # Absent /\ disk[P5] # Absent
  /\ fstate[P2] # "none" /\ fstate[P4] = "none" /\ fstate[P5] = "none"

\* C20. Completion-order delivery: while the loop runs, every completed
\* result can be consumed at once, whatever the state of the files
\* submitted before it.
C20_NeverBlocked ==
  \A p \in Paths :
    (pc = "running" /\ fstate[p] = "done") =>
      ENABLED (\E storeOk \in BOOLEAN : Consume(p, storeOk))

\* The result of sub/B has been consumed while A, submitted before it, is
\* still being extracted.
C20_Witness ==
  /\ pc = "running"
  /\ Before(P1, P2)
  /\ fstate[P1] = "running" /\ fstate[P2] = "consumed"

(***************************************************************************)
(* The buffers and the flush.                                              *)
(***************************************************************************)
\* C21. Batch threshold: while the loop runs, the buffer holds fewer than
\* BatchSize (500 in the code) pending records after every handled result,
\* a flush emptying it as soon as it reaches the threshold; in the step in
\* which the run returns both buffers are empty and every record that was
\* still buffered has its row in the committed table.
C21_BatchThreshold ==
  /\ [](pc = "running" => Len(batch_meta) < BatchSize)
  /\ [][Returns =>
          /\ batch_meta' = <<>> /\ batch_bbox' = <<>>
          /\ \A i \in DOMAIN batch_meta : HasKey(products', batch_meta[i])
       ]_vars

\* After a flush in the loop, a further result left one record in the
\* buffer, below the threshold.
C21_Witness ==
  /\ pc = "running" /\ flushes = 1 /\ commits = 0
  /\ Len(batch_meta) = 1 /\ Len(batch_meta) < BatchSize
  /\ fstate[P1] = "consumed" /\ fstate[P3] = "consumed"

\* C22, as stated: the two buffers have equal length before a flush and are
\* both empty after it, and every bbox_index row the flush writes holds the
\* bounding box that was buffered with the record whose key resolved its
\* product id, also when the re-query found no row for an earlier record.
C22_FlushPairing ==
  [][ flushes' = flushes + 1 =>
        /\ Len(batch_meta) = Len(batch_bbox)
        /\ batch_meta' = <<>>
        /\ batch_bbox' = <<>>
        /\ \A b \in txBbox' \ txBbox :
             \E i \in DOMAIN batch_meta :
               /\ batch_bbox[i] = b.bbox
               /\ \E r \in txProducts' :
                    /\ r.id = b.product_id
                    /\ ProductKey(r) = ProductKey(batch_meta[i])
    ]_vars

(***************************************************************************)
(* The geospatial strategies (SpecExtract).                                *)
(***************************************************************************)
\* The standard strategy succeeds: xarray opens the file and find_lat_lon
\* names a latitude and a longitude variable.
StandardSucceeds(c) == c.xr_ok /\ c.coords # <<>>

\* The corner strategy succeeds: xarray opens the file and it has exactly
\* four corner variables for each axis.
CornerSucceeds(c) ==
  c.xr_ok /\ Len(c.corner_lat) = 4 /\ Len(c.corner_lon) = 4

RawSucceeds(c) == c.raw # <<>>

MinMax(a) == << NanMin(a), NanMax(a) >>

\* The bounding box of the first strategy that succeeds, in the order
\* standard, corner, raw; the absent one when none does.
FirstSuccess(c) ==
  IF StandardSucceeds(c)
  THEN MinMax(c.coords[1].lat) \o MinMax(c.coords[1].lon)
  ELSE IF CornerSucceeds(c)
  THEN MinMax(CornerMean(c.corner_lat)) \o MinMax(CornerMean(c.corner_lon))
  ELSE IF RawSucceeds(c)
  THEN MinMax(c.raw[1].lat) \o MinMax(c.raw[1].lon)
  ELSE NoneBBox

FiniteCorners(c) ==
  \A k \in 1..4 :
    /\ \A i \in DOMAIN c.corner_lat[k] : c.corner_lat[k][i] # NaN
    /\ \A i \in DOMAIN c.corner_lon[k] : c.corner_lon[k][i] # NaN

\* The element-wise arithmetic mean of four arrays.
Mean4(a) ==
  [ i \in DOMAIN a[1] |-> (a[1][i] + a[2][i] + a[3][i] + a[4][i]) \div 4 ]

\* C24. Corner fallback correctness: for a file xarray opens that has
\* exactly four corner variables per axis, all finite, and no
\* latitude/longitude pair, every record's bbox is (min, max) of the
\* element-wise mean of the four latitude corner arrays and (min, max) of
\* the element-wise mean of the four longitude corner arrays.
C24_CornerMean ==
  (/\ XReturned /\ xres.kind = "ok"
   /\ CornerSucceeds(xfile) /\ ~StandardSucceeds(xfile)
   /\ FiniteCorners(xfile)) =>
    \A i \in DOMAIN xres.bboxes :
      xres.bboxes[i] =
        << SeqMin(Mean4(xfile.corner_lat)), SeqMax(Mean4(xfile.corner_lat)),
           SeqMin(Mean4(xfile.corner_lon)), SeqMax(Mean4(xfile.corner_lon)) >>

\* Four corner arrays per axis whose means run from 6 to 46 in latitude and
\* from -2 to 6 in longitude gave that bbox to both records of the file.
C24_Witness ==
  /\ xres.kind = "ok" /\ Len(xres.bboxes) = 2
  /\ CornerSucceeds(xfile) /\ xfile.coords = <<>> /\ FiniteCorners(xfile)
  /\ xfile.corner_lat[1] = <<0, 40>> /\ xfile.corner_lon[4] = <<4, 12>>
  /\ xres.bboxes[2] = <<6, 46, -2, 6>>

\* What an attribute normalizes to: "" when it is absent or unparseable.
Normalized(v) == IF v = NoVal THEN "" ELSE normalize_datetime(v)

\* The k-th filename timestamp, "" when the filename does not fit the
\* pattern or one of its two groups is no date.
FromFilename(p, k) ==
  IF /\ StemStamps(p) # <<>>
     /\ IsDate(StemStamps(p)[1]) /\ IsDate(StemStamps(p)[2])
  THEN WrittenOut(StemStamps(p)[k])
  ELSE ""

\* C25. Partial timestamp fill: when exactly one of the start and end
\* attributes normalizes to a non-empty value, that value is kept and the
\* other is the filename timestamp of its position (the first for the
\* start, the second for the end), empty when the filename gives none; a
\* value obtained from an attribute is never replaced by a filename one.
C25_PartialFill ==
  (XReturned /\ xres.kind = "ok") =>
    LET s == Normalized(xfile.attrs.start_time)
        e == Normalized(xfile.attrs.stop_time)
    IN /\ (s # "" /\ e = "") => Stamped(s, FromFilename(xpath, 2))
       /\ (s = "" /\ e # "") => Stamped(FromFilename(xpath, 1), e)
       /\ \A i \in DOMAIN xres.metas :
            /\ s # "" => xres.metas[i].datetime_start = s
            /\ e # "" => xres.metas[i].datetime_end = e

\* A file named with two timestamps, with an unparseable start attribute
\* and an end attribute that parses: the start is the first filename
\* timestamp, the end is the attribute's.
C25_Witness ==
  /\ xres.kind = "ok" /\ xres.metas # <<>>
  /\ xpath = P1
  /\ xfile.attrs.start_time = "garbage"
  /\ xfile.attrs.stop_time = "2024-02-02T01:00:00Z"
  /\ xres.metas[1].datetime_start = "2024-01-01T00:00:00"
  /\ xres.metas[1].datetime_end = "2024-02-02T01:00:00"

(***************************************************************************)
(* Dispatch.                                                               *)
(***************************************************************************)
\* The steps a future takes within one run.
FutureSteps ==
  { <<"pending", "running">>, <<"running", "done">>, <<"done", "consumed">> }

\* What the loop body of lines 215-226 can change.
loopVars == << batch_meta, batch_bbox, txProducts, txBbox, flushes, log >>

\* C26. Exactly-once dispatch: a run submits one future for each discovered
\* path; within the run a future only moves from pending to running, to
\* done and to consumed, its result is set only in the step in which its
\* extraction ends, and every step of the loop that buffers, flushes or
\* reports consumes exactly one result, one that was not consumed before.
C26_ExactlyOnce ==
  [][ /\ (runs' = runs + 1 /\ pc' = "running") =>
           { p \in Paths : fstate'[p] = "pending" } = all_nc'
      /\ runs' = runs =>
           /\ \A p \in Paths :
                /\ fstate'[p] # fstate[p] =>
                     <<fstate[p], fstate'[p]>> \in FutureSteps
                /\ result'[p] # result[p] =>
                     fstate[p] = "running" /\ fstate'[p] = "done"
           /\ (pc = "running" /\ pc' = "running" /\ loopVars' # loopVars) =>
                Cardinality({ p \in Paths : /\ fstate[p] = "done"
                                            /\ fstate'[p] = "consumed" }) = 1
    ]_vars

\* A run with two workers returned with each of its three futures consumed
\* and the three records of the two files that have any committed.
C26_Witness ==
  /\ pc = "done" /\ runs = 1 /\ workers = 2
  /\ all_nc = {P1, P2, P3}
  /\ \A p \in all_nc : fstate[p] = "consumed" /\ result[p].kind = "ok"
  /\ Cardinality(products) = 3

\* A step of the worker that holds the future of p: it takes the call, or
\* the call returns.
WorkerStep(p) ==
  /\ runs' = runs
  /\ \/ fstate[p] = "pending" /\ fstate'[p] = "running"
     \/ fstate[p] = "running" /\ fstate'[p] = "done"

\* C27. Single writer: no step of a worker changes the store, committed or
\* in the transaction, the connection, the buffers, the log or the
\* coordinator's position; it changes nothing of any other future, and the
\* result it returns is one extract_metadata gives for its path and the
\* file at that path.
C27_SingleWriter ==
  [][ \A p \in Paths :
        WorkerStep(p) =>
          /\ UNCHANGED << products, bbox_index, txProducts, txBbox, conn, pc,
                          error, batch_meta, batch_bbox, log, commits,
                          flushes, all_nc, disk >>
          /\ \A q \in Paths \ {p} :
               fstate'[q] = fstate[q] /\ result'[q] = result[q]
          /\ IF fstate[p] = "running"
             THEN result'[p] \in extract_metadata(p, disk[p])
             ELSE result'[p] = result[p]
    ]_vars

\* A worker is extracting sub/B while the coordinator's transaction holds
\* the uncommitted rows of a flush.
C27_Witness ==
  /\ pc = "running" /\ conn = "open"
  /\ fstate[P2] = "running"
  /\ flushes = 1 /\ txProducts # products /\ txBbox # bbox_index

(***************************************************************************)
(* The exclusion list (SpecDiscover).                                      *)
(***************************************************************************)
\* The ten names written between the brackets of lines 27-40.
WrittenNames ==
  { "geodetic_in", "FRP_SWIR500m", "time_cordinates", "geo:", "trsp",
    "w_aer", "tie_geo_coordinates", "tie_meteo", "wqsf", "tsm_nn" }

\* C28, as stated: a .nc file whose stem is one of the ten names written in
\* the exclusion list is never discovered and never submitted.
C28_WrittenNamesExcluded ==
  \A p \in Paths :
    (Suffix(p) = ".nc" /\ Stem(p) \in WrittenNames) =>
      p \notin all_nc /\ fstate[p] = "none"

(***************************************************************************)
(* The store under ingest() and the visualization client (SpecStore).      *)
(***************************************************************************)
\* Every bbox_index row of B refers to a products row of P.
NoOrphan(P, B) == \A b \in B : \E r \in P : r.id = b.product_id

\* C29. No orphan bounding boxes: through committed runs, deletions of
\* stale rows and resets, every bbox_index row, committed or in the open
\* transaction, refers to an existing products row; a commit that removes
\* a products row removes its bbox_index rows with it and one that removes
\* a bbox_index row removes its products row with it; and a step that
\* removes a committed row is a commit of the client, never a step of
\* ingest().
C29_NoOrphans ==
  /\ [](NoOrphan(products, bbox_index) /\ NoOrphan(txProducts, txBbox))
  /\ [][ /\ \A r \in products \ products' :
              \A b \in bbox_index' : b.product_id # r.id
         /\ \A b \in bbox_index \ bbox_index' :
              \A r \in products' : r.id # b.product_id
         /\ (~(products \subseteq products')
               \/ ~(bbox_index \subseteq bbox_index')) => ops' = ops + 1
       ]_vars

\* After a run committed the rows of A and C, the file C disappeared and
\* the client deleted its row: the row of C and its bounding box are gone,
\* those of A are kept.
C29_Witness ==
  /\ pc = "done" /\ runs = 1 /\ ops = 1
  /\ disk[P3] = Absent /\ Len(result[P3].metas) = 1
  /\ \A r \in products : r.file_path = P1
  /\ Cardinality(products) = 2 /\ Cardinality(bbox_index) = 2

(***************************************************************************)
(* Termination (SpecLive).                                                 *)
(***************************************************************************)
\* ingest() has returned after consuming every result, the final flush and
\* its one commit.
Completed ==
  /\ pc = "done" /\ commits = 1 /\ conn = "closed"
  /\ \A p \in all_nc : fstate[p] = "consumed"
  /\ batch_meta = <<>> /\ batch_bbox = <<>>

\* C30. Termination: when every call of extract_metadata returns and the
\* store raises nothing, a run in flight leads to the state in which every
\* result is consumed, the final flush and the commit are done and
\* ingest() has returned, unless the process is terminated from outside;
\* the run has no other way out.
C30_Terminates ==
  /\ (pc = "running") ~> (Completed \/ error = "crash")
  /\ [](pc = "aborted" => error = "crash")

\* A run with two workers, one of whose files gave the failure result,
\* completed.
C30_Witness ==
  /\ Completed /\ workers = 2 /\ runs = 1
  /\ result[P2].kind = "fail" /\ fstate[P2] = "consumed"
  /\ Cardinality(all_nc) = 3

====
